---- MODULE Spec2Model ----
(***************************************************************************)
(* Model of the raw window / display handle layer (src/src/lib.rs):        *)
(*   - the capability traits HasRawWindowHandle / HasRawDisplayHandle and  *)
(*     their blanket implementations for &'a T,                            *)
(*   - the tagged unions RawWindowHandle / RawDisplayHandle with their     *)
(*     derived PartialEq / Eq / Hash,                                      *)
(*   - the From conversions generated by the from_impl! macro.             *)
(* The payload structs live in the module `windows`, which is declared at  *)
(* lib.rs:1 but whose file is not part of the sources; they are modelled   *)
(* from the specification (flat aggregates of native identifiers, zero     *)
(* being the "absent" sentinel).                                           *)
(***************************************************************************)
EXTENDS Integers, Sequences, FiniteSets, TLC

\* ------------------------------------------------------------------ bounds
\* Largest ordinary native identifier value (0 is the "absent" sentinel).
MaxVal == 1
\* Deepest reference nesting (&T, &&T, ...) an accessor is called through.
MaxDepth == 3

\* Native identifier values: the sentinel, small identifiers and the value
\* 12345 used by the specification's round-trip scenario.
Vals == (0..MaxVal) \cup {12345}

\* Frames the call stack may hold; one more than any terminating call needs.
MaxStack == MaxDepth + 2

\* Option values.
None == <<>>
Some(v) == <<v>>

\* ------------------------------------------------- payload structs (windows)
\* Flat aggregates of native identifiers: a window handle and an instance
\* handle for Win32, one opaque pointer for WinRT.  The display payload is
\* given a single identifier field; a struct without fields is the case in
\* which that field only ever holds the sentinel.
Win32WindowHandle == [hwnd : Vals, hinstance : Vals]
WinRTWindowHandle == [core_window : Vals]
WindowsDisplayHandle == [display : Vals]

\* Default::default() of each payload struct: every field absent.
DefaultPayload(ty) ==
    CASE ty = "Win32WindowHandle" -> [hwnd |-> 0, hinstance |-> 0]
      [] ty = "WinRTWindowHandle" -> [core_window |-> 0]
      [] ty = "WindowsDisplayHandle" -> [display |-> 0]

PayloadTypes == {"Win32WindowHandle", "WinRTWindowHandle", "WindowsDisplayHandle"}

PayloadValues(ty) ==
    CASE ty = "Win32WindowHandle" -> Win32WindowHandle
      [] ty = "WinRTWindowHandle" -> WinRTWindowHandle
      [] ty = "WindowsDisplayHandle" -> WindowsDisplayHandle

\* The fields of a payload struct in declaration order.
Fields(ty, p) ==
    CASE ty = "Win32WindowHandle" -> <<p.hwnd, p.hinstance>>
      [] ty = "WinRTWindowHandle" -> <<p.core_window>>
      [] ty = "WindowsDisplayHandle" -> <<p.display>>

\* #[derive(PartialEq)] on a payload struct: all fields, pairwise.
PayloadEq(ty, p, q) ==
    \A i \in 1..Len(Fields(ty, p)) : Fields(ty, p)[i] = Fields(ty, q)[i]

\* -------------------------------------------------------- the tagged unions
\* Variants of each enum, in declaration order, and the payload each carries.
Variants(union) ==
    CASE union = "RawWindowHandle" -> <<"Win32", "WinRT">>
      [] union = "RawDisplayHandle" -> <<"Windows">>

VariantPayload(union, tag) ==
    CASE union = "RawWindowHandle" /\ tag = "Win32" -> "Win32WindowHandle"
      [] union = "RawWindowHandle" /\ tag = "WinRT" -> "WinRTWindowHandle"
      [] union = "RawDisplayHandle" /\ tag = "Windows" -> "WindowsDisplayHandle"

Unions == {"RawWindowHandle", "RawDisplayHandle"}

Tags(union) == {Variants(union)[i] : i \in 1..Len(Variants(union))}

\* A value of an enum: its type, its variant and the variant's payload.
EnumValues(union) ==
    UNION {[union : {union}, tag : {t}, payload : PayloadValues(VariantPayload(union, t))]
             : t \in Tags(union)}

RawWindowHandle == EnumValues("RawWindowHandle")
RawDisplayHandle == EnumValues("RawDisplayHandle")

\* core::mem::discriminant: the position of the variant in the declaration.
Discriminant(u) ==
    CHOOSE i \in 1..Len(Variants(u.union)) : Variants(u.union)[i] = u.tag

\* `match u { Union::arm(p) => Some(p), _ => None }`
MatchArm(u, arm) == IF u.tag = arm THEN Some(u.payload) ELSE None

\* Variant of UnionEq that compares the discriminants only.
UnionEqTagOnly(a, b) == Discriminant(a) = Discriminant(b)

\* Variant of UnionEq that lets an all-absent right operand equal any payload
\* of the same variant.
UnionEqAbsentWild(a, b) ==
    /\ Discriminant(a) = Discriminant(b)
    /\ \/ PayloadEq(VariantPayload(a.union, a.tag), a.payload, b.payload)
       \/ b.payload = DefaultPayload(VariantPayload(b.union, b.tag))

\* #[derive(PartialEq)] on the enums (both operands have the same type).
UnionEq(a, b) ==
    /\ Discriminant(a) = Discriminant(b)
    /\ PayloadEq(VariantPayload(a.union, a.tag), a.payload, b.payload)

\* #[derive(Hash)] on the enums: the words fed to the Hasher, in order; the
\* value a Hasher finishes with is a function of this stream.
UnionHash(a) ==
    <<Discriminant(a)>> \o Fields(VariantPayload(a.union, a.tag), a.payload)

\* ------------------------------------------------------------- conversions
\* Variant of from_impl that wraps a default payload: `$to::$enum(Default::default())`.
from_impl_default(to, enum, value) ==
    [union |-> to, tag |-> enum, payload |-> DefaultPayload(VariantPayload(to, enum))]

\* macro_rules! from_impl: `$to::$enum(value)`.
from_impl(to, enum, value) == [union |-> to, tag |-> enum, payload |-> value]

\* The three invocations of from_impl!, selected by the payload's type.
From(ty, value) ==
    CASE ty = "WindowsDisplayHandle" -> from_impl("RawDisplayHandle", "Windows", value)
      [] ty = "Win32WindowHandle" -> from_impl("RawWindowHandle", "Win32", value)
      [] ty = "WinRTWindowHandle" -> from_impl("RawWindowHandle", "WinRT", value)

\* ----------------------------------------------- reference forwarding impls
Traits == {"HasRawWindowHandle", "HasRawDisplayHandle"}

\* Variant of DerefCount in which the display impl calls the method on `self`
\* itself: `self.raw_display_handle()`.
DerefCountNoDeref(tr) == IF tr = "HasRawWindowHandle" THEN 2 ELSE 0

\* Number of `*` applied to `self` in the body of the impl for &'a T.
DerefCount(tr) == IF tr = "HasRawWindowHandle" THEN 2 ELSE 1

\* Inside the impl for &'a T, `self` has type &&'a T: two reference layers
\* above the type parameter T.  The receiver expression keeps what is left.
ReceiverLayers(tr) == 2 - DerefCount(tr)

\* Variant of Lookup that never tries the receiver by value: it is always
\* auto-referenced.
LookupAutoref(k) == k

\* Method lookup for a receiver with k reference layers above T.  The method
\* takes &Self.  A receiver that is already a reference is first tried by
\* value, which selects Self with one layer less; otherwise it is
\* auto-referenced and Self is the receiver's own type.  The result is the
\* number of layers above T of the selected Self: 0 is T's implementation,
\* 1 is the implementation for &'a T itself.
Lookup(k) == IF k >= 1 THEN k - 1 ELSE k

\* Nesting depth of the implementation the impl for &'a T at depth d calls
\* (T has depth d - 1).
Callee(tr, d) == (d - 1) + Lookup(ReceiverLayers(tr))

\* Variant of ForwardResult that returns a handle of the same variant with
\* every field absent instead of the callee's handle.
ForwardBlank(v) == [v EXCEPT !.payload = DefaultPayload(VariantPayload(v.union, v.tag))]

\* Variant of ForwardResult that returns the first variant of the enum with
\* every field absent instead of the callee's handle.
ForwardFirstVariant(v) ==
    [union |-> v.union, tag |-> Variants(v.union)[1],
     payload |-> DefaultPayload(VariantPayload(v.union, Variants(v.union)[1]))]

\* The value the forwarding body returns, given what its callee returned.
ForwardResult(v) == v

VARIABLES
    window,     \* handle currently naming the logical window (implementer's state)
    display,    \* handle currently naming the logical display (implementer's state)
    cache,      \* per trait: the handle the caller cached since the last platform event
    stack,      \* nesting depths of the accessor implementations being executed
    rv,         \* value being returned up the call stack
    invoked,    \* times the implementer's own accessor ran during the current call
    out         \* the operation in progress or completed last, with its operands and result

vars == <<window, display, cache, stack, rv, invoked, out>>

\* The implementer's accessor for T itself: a snapshot of the native handle.
ImplAccessor(tr) == IF tr = "HasRawWindowHandle" THEN window ELSE display

Idle == stack = <<>> /\ rv = None

NoCache == [t \in Traits |-> None]

Init ==
    /\ window \in RawWindowHandle
    /\ display \in RawDisplayHandle
    /\ cache = NoCache
    /\ stack = <<>>
    /\ rv = None
    /\ invoked = 0
    /\ out = [op |-> "idle"]

\* A platform event (e.g. surface recreation) gives the window a new handle.
WindowEvent ==
    /\ Idle
    /\ \E h \in RawWindowHandle : window' = h
    /\ cache' = [cache EXCEPT !["HasRawWindowHandle"] = None]
    /\ UNCHANGED <<display, stack, rv, invoked, out>>

\* A platform event gives the display a new handle.
DisplayEvent ==
    /\ Idle
    /\ \E h \in RawDisplayHandle : display' = h
    /\ cache' = [cache EXCEPT !["HasRawDisplayHandle"] = None]
    /\ UNCHANGED <<window, stack, rv, invoked, out>>

\* The caller invokes the accessor of trait tr on a value nested d references
\* deep (d = 0: on the implementer itself).
Call(tr, d) ==
    /\ Idle
    /\ stack' = <<d>>
    /\ invoked' = 0
    /\ out' = [op |-> "calling", trait |-> tr, depth |-> d]
    /\ UNCHANGED <<window, display, cache, rv>>

CallWindow == \E d \in 0..MaxDepth : Call("HasRawWindowHandle", d)
CallDisplay == \E d \in 0..MaxDepth : Call("HasRawDisplayHandle", d)

Top == stack[Len(stack)]
Pop == SubSeq(stack, 1, Len(stack) - 1)

\* Body of the impl for &'a T entered: it calls the accessor lookup selects.
Forward(tr) ==
    /\ out.op = "calling" /\ out.trait = tr
    /\ stack # <<>> /\ rv = None
    /\ Top >= 1
    /\ Len(stack) < MaxStack
    /\ stack' = Append(stack, Callee(tr, Top))
    /\ UNCHANGED <<window, display, cache, rv, invoked, out>>

RefRawWindowHandle == Forward("HasRawWindowHandle")
RefRawDisplayHandle == Forward("HasRawDisplayHandle")

\* The implementer's own accessor runs and returns its snapshot.
Accessor ==
    /\ out.op = "calling"
    /\ stack # <<>> /\ rv = None
    /\ Top = 0
    /\ rv' = Some(ImplAccessor(out.trait))
    /\ stack' = Pop
    /\ invoked' = invoked + 1
    /\ UNCHANGED <<window, display, cache, out>>

\* A forwarding body returns what its callee returned.
Return ==
    /\ out.op = "calling"
    /\ stack # <<>> /\ rv # None
    /\ rv' = Some(ForwardResult(rv[1]))
    /\ stack' = Pop
    /\ UNCHANGED <<window, display, cache, invoked, out>>

\* The call is back at the caller, which keeps the handle in its cache.
\* `prev` is what the caller had cached, `direct` what the accessor called
\* on the implementer itself returns at this moment.
Complete ==
    /\ out.op = "calling"
    /\ stack = <<>> /\ rv # None
    /\ out' = [op |-> "call", trait |-> out.trait, depth |-> out.depth,
               res |-> rv[1], prev |-> cache[out.trait],
               direct |-> ImplAccessor(out.trait), invoked |-> invoked]
    /\ cache' = [cache EXCEPT ![out.trait] = Some(rv[1])]
    /\ rv' = None
    /\ invoked' = 0
    /\ UNCHANGED <<window, display, stack>>

\* From::from(value) for a payload of type ty.
Convert ==
    /\ Idle
    /\ \E ty \in PayloadTypes : \E p \in PayloadValues(ty) :
         out' = [op |-> "from", ty |-> ty, arg |-> p, res |-> From(ty, p)]
    /\ UNCHANGED <<window, display, cache, stack, rv, invoked>>

\* The converted value is matched against one variant of its enum.
Match ==
    /\ Idle
    /\ out.op = "from"
    /\ \E arm \in Tags(out.res.union) :
         out' = [op |-> "match", ty |-> out.ty, arg |-> out.arg, scrut |-> out.res,
                 arm |-> arm, res |-> MatchArm(out.res, arm)]
    /\ UNCHANGED <<window, display, cache, stack, rv, invoked>>

Next ==
    \/ WindowEvent
    \/ DisplayEvent
    \/ CallWindow
    \/ CallDisplay
    \/ RefRawWindowHandle
    \/ RefRawDisplayHandle
    \/ Accessor
    \/ Return
    \/ Complete
    \/ Convert
    \/ Match

Spec == Init /\ [][Next]_vars

\* Calls are synchronous: once made, a call runs each of its steps.
FairSpec ==
    /\ Spec
    /\ WF_vars(RefRawWindowHandle)
    /\ WF_vars(RefRawDisplayHandle)
    /\ WF_vars(Accessor)
    /\ WF_vars(Return)
    /\ WF_vars(Complete)

\* ------------------------------------------- equality and hashing of values
\* The caller obtains a value of one of the enums; it keeps up to three values
\* of the same enum at hand.
Operand ==
    /\ Idle
    /\ \E u \in Unions : \E v \in EnumValues(u) :
         out' = [op |-> "operands",
                 vs |-> IF out.op = "operands" /\ Len(out.vs) < 3 /\ out.vs[1].union = u
                        THEN Append(out.vs, v)
                        ELSE <<v>>]
    /\ UNCHANGED <<window, display, cache, stack, rv, invoked>>

\* a == a, a == b, b == a, b == c and a == c for three values of one enum.
Equals ==
    /\ Idle
    /\ out.op = "operands" /\ Len(out.vs) = 3
    /\ LET a == out.vs[1]
           b == out.vs[2]
           c == out.vs[3]
       IN  out' = [op |-> "eq", a |-> a, b |-> b, c |-> c,
                   aa |-> UnionEq(a, a), ab |-> UnionEq(a, b), ba |-> UnionEq(b, a),
                   bc |-> UnionEq(b, c), ac |-> UnionEq(a, c)]
    /\ UNCHANGED <<window, display, cache, stack, rv, invoked>>

\* The two values compared last are hashed.
HashValues ==
    /\ Idle
    /\ out.op = "eq"
    /\ out' = [op |-> "hash", a |-> out.a, b |-> out.b, ab |-> out.ab,
               ha |-> UnionHash(out.a), hb |-> UnionHash(out.b)]
    /\ UNCHANGED <<window, display, cache, stack, rv, invoked>>

ValueInit ==
    /\ Init
    /\ window = From("Win32WindowHandle", DefaultPayload("Win32WindowHandle"))
    /\ display = From("WindowsDisplayHandle", DefaultPayload("WindowsDisplayHandle"))

ValueNext ==
    \/ Operand
    \/ Equals
    \/ HashValues

ValueSpec == ValueInit /\ [][ValueNext]_vars

\* ------------------------------------------------------------------ claims
\* The variant that belongs to each payload type.
TagOf(ty) ==
    CASE ty = "Win32WindowHandle" -> "Win32"
      [] ty = "WinRTWindowHandle" -> "WinRT"
      [] ty = "WindowsDisplayHandle" -> "Windows"

\* The enum that owns each payload type.
UnionOf(ty) ==
    IF ty = "WindowsDisplayHandle" THEN "RawDisplayHandle" ELSE "RawWindowHandle"

\* C1: a payload converted into its union and matched on the tag of its type
\* comes back equal, field for field, to the payload that went in.
RoundTrip ==
    (out.op = "match" /\ out.arm = TagOf(out.ty)) => out.res = Some(out.arg)

RoundTripWitness ==
    /\ out.op = "match"
    /\ out.ty = "Win32WindowHandle"
    /\ out.arm = "Win32"
    /\ out.arg = [hwnd |-> 12345, hinstance |-> 0]
    /\ out.res = Some([hwnd |-> 12345, hinstance |-> 0])

\* C2: an accessor called through any number of references returns the value
\* the accessor called on the implementer itself returns.
DelegationTransparent ==
    out.op = "call" => out.res = out.direct

DelegationWitness ==
    /\ out.op = "call"
    /\ out.trait = "HasRawDisplayHandle"
    /\ out.depth = 2
    /\ out.res = display
    /\ out.res.payload.display = 12345

\* C3: two values of one union compare equal exactly when they carry the same
\* tag and the same payload, field for field.
EqIffStructural ==
    out.op = "eq" =>
        (out.ab <=> (out.a.tag = out.b.tag /\ out.a.payload = out.b.payload))

EqOneFieldWitness ==
    /\ out.op = "eq"
    /\ out.a.tag = "Win32" /\ out.b.tag = "Win32"
    /\ out.a.payload.hwnd = out.b.payload.hwnd
    /\ out.a.payload.hinstance = 0
    /\ out.b.payload.hinstance # 0
    /\ ~out.ab
    /\ out.c.tag = "WinRT"
    /\ ~out.ac

\* C4: the conversion yields, for every payload, a value of the owning union
\* under the tag of the payload's type, and no other payload of that type
\* converts to an equal value.
FromTotalInjective ==
    out.op = "from" =>
        /\ out.res \in EnumValues(UnionOf(out.ty))
        /\ out.res.tag = TagOf(out.ty)
        /\ \A q \in PayloadValues(out.ty) :
             q # out.arg => ~UnionEq(From(out.ty, q), out.res)

FromWitness ==
    /\ out.op = "from"
    /\ out.ty = "WinRTWindowHandle"
    /\ out.arg.core_window # 0
    /\ out.res.tag = "WinRT"

\* C5: a call that follows an earlier call on the same window or display with
\* no platform event between them returns the handle the earlier call returned.
HandleStable ==
    (out.op = "call" /\ out.prev # None) => out.res = out.prev[1]

HandleStableWitness ==
    /\ out.op = "call"
    /\ out.trait = "HasRawWindowHandle"
    /\ out.depth = 1
    /\ out.prev = Some(out.res)
    /\ out.res.payload # DefaultPayload(VariantPayload(out.res.union, out.res.tag))

\* C6: two values that compare equal hash alike.
HashConsistent ==
    (out.op = "hash" /\ out.ab) => out.ha = out.hb

HashWitness ==
    /\ out.op = "hash"
    /\ out.ab
    /\ out.a.tag = "Win32"
    /\ out.a.payload.hwnd = 12345
    /\ out.ha = out.hb

\* C7: equality of union values is reflexive, symmetric and transitive.
EqEquivalence ==
    out.op = "eq" =>
        /\ out.aa
        /\ out.ab => out.ba
        /\ (out.ab /\ out.bc) => out.ac

EqEquivalenceWitness ==
    /\ out.op = "eq"
    /\ out.ab /\ out.bc /\ out.ac /\ out.ba
    /\ out.a.payload # DefaultPayload(VariantPayload(out.a.union, out.a.tag))

\* C9: every accessor call that is made returns to its caller.
CallTerminates ==
    (out.op = "calling") ~> (out.op = "call")

DisplayCallReturned ==
    /\ out.op = "call"
    /\ out.trait = "HasRawDisplayHandle"
    /\ out.depth = MaxDepth

\* C10: no step of an accessor call or of a conversion changes the window or
\* the display, every forwarding body calls the accessor of its referent, and
\* a completed call has run the implementer's accessor exactly once.
NoSideEffects ==
    [][/\ (stack' # stack \/ rv' # rv \/ out' # out) =>
             (window' = window /\ display' = display)
       /\ (stack # <<>> /\ Len(stack') > Len(stack)) =>
             stack'[Len(stack')] = stack[Len(stack)] - 1
       /\ out'.op = "call" => out'.invoked = 1]_vars

ForwardedOnce ==
    /\ out.op = "call"
    /\ out.depth = 2
    /\ out.invoked = 1
    /\ out.res = ImplAccessor(out.trait)

====
